---- MODULE Spec2Model ----
(***************************************************************************)
(* Verification model of the sports-data ingestion pipeline:               *)
(*   scripts/ingest.py            clean_display_value, extract_leaders,    *)
(*                                extract_team_stats,                      *)
(*                                transform_event_to_text,                 *)
(*                                extract_smart_metadata, run_ingestion    *)
(*   scripts/update_vector_db.py  SportsDataSync                           *)
(*   src/tools/retriever.py       SportsRetriever.search                   *)
(*                                                                         *)
(* Python values are represented as follows.                               *)
(*   dict        function with a set of strings as DOMAIN                  *)
(*   list        sequence                                                  *)
(*   None        the string "None" (what an f-string renders it as)        *)
(*   str         a string; a str the code inspects character by character  *)
(*               (display values) is a sequence of one-character strings   *)
(*   exception   a call that can raise returns [raised, value]             *)
(*   md5 digest  the string "md5(" content ")" (collision free)              *)
(*   JSON text   a sequence of tokens <<kind, text>>                       *)
(***************************************************************************)
EXTENDS Integers, Sequences, FiniteSets, TLC

VARIABLES
    val, cleaned, clean_pc,
    event, chunk_text, record, parse_pc,
    data, loaded, all_records, unique_records, store, replaced, runs, ingest_pc,
    fetch, completed, sync_records, embed_error, upserts, index, sync_pc,
    response, results, search_pc

cleanVars == <<val, cleaned, clean_pc>>
parseVars == <<event, chunk_text, record, parse_pc>>
ingestVars == <<data, loaded, all_records, unique_records, store, replaced, runs, ingest_pc>>
syncVars == <<fetch, completed, sync_records, embed_error, upserts, index, sync_pc>>
searchVars == <<response, results, search_pc>>
vars == <<cleanVars, parseVars, ingestVars, syncVars, searchVars>>

----------------------------------------------------------------------------
(* Bounds of the model                                                     *)

MaxLen == 4

MaxCompetitors == 2

MaxDocs == 2

MaxRuns == 3

MaxHits == 2

MaxItems == 2

MaxJsonLen == 2

----------------------------------------------------------------------------
(* Python built-ins                                                        *)

None == "None"

EmptyDict == <<>>

Ok(v) == [raised |-> FALSE, value |-> v]

Raised(e) == [raised |-> TRUE, value |-> e]

Has(d, k) == k \in DOMAIN d

Get(d, k, default) == IF k \in DOMAIN d THEN d[k] ELSE default

Range(s) == {s[i] : i \in 1..Len(s)}

SeqsUpTo(S, n) == UNION {[1..k -> S] : k \in 0..n}

RECURSIVE SplitAcc(_, _, _, _)
SplitAcc(s, sep, parts, cur) ==
    IF s = <<>> THEN Append(parts, cur)
    ELSE IF Head(s) = sep THEN SplitAcc(Tail(s), sep, Append(parts, cur), <<>>)
    ELSE SplitAcc(Tail(s), sep, parts, Append(cur, Head(s)))

split(s, sep) == SplitAcc(s, sep, <<>>, <<>>)

RECURSIVE lstrip(_)
lstrip(s) ==
    IF s # <<>> /\ Head(s) = " " THEN lstrip(Tail(s)) ELSE s

RECURSIVE rstrip(_)
rstrip(s) ==
    IF s # <<>> /\ s[Len(s)] = " " THEN rstrip(SubSeq(s, 1, Len(s) - 1)) ELSE s

strip(s) == rstrip(lstrip(s))

RECURSIVE join(_, _)
join(sep, parts) ==
    IF parts = <<>> THEN <<>>
    ELSE IF Len(parts) = 1 THEN parts[1]
    ELSE parts[1] \o sep \o join(sep, Tail(parts))

----------------------------------------------------------------------------
(* scripts/ingest.py: clean_display_value                                  *)

NA == <<"N", "/", "A">>

CommaSpace == <<",", " ">>

NoSlashParts(parts) == SelectSeq(parts, LAMBDA p : "/" \notin Range(p))

StripAll(parts) == [i \in 1..Len(parts) |-> strip(parts[i])]

clean_display_value(v) ==
    IF v = <<>> THEN NA
    ELSE LET parts == split(v, ",")
             cleaned_parts == StripAll(NoSlashParts(parts))
         IN  IF cleaned_parts # <<>> THEN join(CommaSpace, cleaned_parts) ELSE v

Chars == {"a", "/", ",", " "}

DisplayValues == SeqsUpTo(Chars, MaxLen)

InitClean ==
    /\ val \in DisplayValues
    /\ cleaned = <<>>
    /\ clean_pc = "call"

IdleClean ==
    /\ val = <<>>
    /\ cleaned = <<>>
    /\ clean_pc = "idle"

CleanDisplayValue ==
    /\ clean_pc = "call"
    /\ cleaned' = clean_display_value(val)
    /\ clean_pc' = "return"
    /\ UNCHANGED val

----------------------------------------------------------------------------
(* scripts/ingest.py: extract_leaders, extract_team_stats.                 *)
(* Text built by f-strings is a sequence of fragments (literal pieces and  *)
(* interpolated values); a display value contributes its characters.       *)

RECURSIVE Flat(_)
Flat(s) == IF s = <<>> THEN "" ELSE Head(s) \o Flat(Tail(s))

Truthy(d, k) == Has(d, k) /\ d[k] # <<>>

\* cat["leaders"][0] if cat.get("leaders") else None; None is written as the
\* empty dict: both are falsy at line 39 and the value is read nowhere else.
CatData(cat) == IF Truthy(cat, "leaders") THEN cat["leaders"][1] ELSE EmptyDict

RECURSIVE GameLeaders(_)
GameLeaders(cats) ==
    IF cats = <<>> THEN Ok(<<>>)
    ELSE IF ~Has(Head(cats), "displayName") THEN Raised("KeyError")
    ELSE LET rest == GameLeaders(Tail(cats))
             entry == [category |-> Head(cats)["displayName"],
                       data |-> CatData(Head(cats)),
                       team |-> None]
         IN  IF rest.raised THEN rest ELSE Ok(<<entry>> \o rest.value)

RECURSIVE TeamLeaders(_, _)
TeamLeaders(team_name, cats) ==
    IF cats = <<>> THEN Ok(<<>>)
    ELSE IF ~Has(Head(cats), "displayName") THEN Raised("KeyError")
    ELSE LET rest == TeamLeaders(team_name, Tail(cats))
             entry == [category |-> team_name \o " " \o Head(cats)["displayName"],
                       data |-> CatData(Head(cats)),
                       team |-> team_name]
         IN  IF rest.raised THEN rest ELSE Ok(<<entry>> \o rest.value)

HasTeamKey(c, k) == Has(c, "team") /\ Has(c["team"], k)

RECURSIVE CompetitorLeaders(_)
CompetitorLeaders(competitors) ==
    IF competitors = <<>> THEN Ok(<<>>)
    ELSE IF ~HasTeamKey(Head(competitors), "abbreviation") THEN Raised("KeyError")
    ELSE LET mine == TeamLeaders(Head(competitors)["team"]["abbreviation"],
                                 Get(Head(competitors), "leaders", <<>>))
             rest == CompetitorLeaders(Tail(competitors))
         IN  IF mine.raised THEN mine
             ELSE IF rest.raised THEN rest
             ELSE Ok(mine.value \o rest.value)

extract_leaders(comp) ==
    LET game == IF Has(comp, "leaders") THEN GameLeaders(comp["leaders"]) ELSE Ok(<<>>)
        teams == CompetitorLeaders(Get(comp, "competitors", <<>>))
    IN  IF game.raised THEN game
        ELSE IF teams.raised THEN teams
        ELSE Ok(SelectSeq(game.value \o teams.value, LAMBDA l : DOMAIN l.data # {}))

KeyStatNames == {"fieldGoalPct", "threePointPct", "freeThrowPct"}

RECURSIVE KeyStats(_)
KeyStats(stats) ==
    IF stats = <<>> THEN Ok(<<>>)
    ELSE IF ~Has(Head(stats), "name") THEN Raised("KeyError")
    ELSE IF Head(stats)["name"] \in KeyStatNames
            /\ ~(Has(Head(stats), "abbreviation") /\ Has(Head(stats), "displayValue"))
         THEN Raised("KeyError")
    ELSE LET rest == KeyStats(Tail(stats))
             item == <<Head(stats)["abbreviation"], ": ", Head(stats)["displayValue"], "%">>
         IN  IF rest.raised THEN rest
             ELSE IF Head(stats)["name"] \in KeyStatNames THEN Ok(<<item>> \o rest.value)
             ELSE rest

RECURSIVE StatsSummary(_)
StatsSummary(competitors) ==
    IF competitors = <<>> THEN Ok(<<>>)
    ELSE IF ~HasTeamKey(Head(competitors), "abbreviation") THEN Raised("KeyError")
    ELSE LET abbr == Head(competitors)["team"]["abbreviation"]
             key_stats == KeyStats(Get(Head(competitors), "statistics", <<>>))
             rest == StatsSummary(Tail(competitors))
         IN  IF key_stats.raised THEN key_stats
             ELSE IF rest.raised THEN rest
             ELSE IF key_stats.value # <<>>
                  THEN Ok(<<<<abbr, " [">> \o join(<<", ">>, key_stats.value) \o <<"]">>>>
                          \o rest.value)
             ELSE rest

extract_team_stats(comp) ==
    LET summary == StatsSummary(Get(comp, "competitors", <<>>))
    IN  IF summary.raised THEN summary ELSE Ok(join(<<" | ">>, summary.value))

----------------------------------------------------------------------------
(* scripts/ingest.py: transform_event_to_text                              *)

PreviewMarker == "PREVIEW: "

LiveMarker == "LIVE GAME ("

FinalMarker == "FINAL SCORE: "

StateMarkers == {PreviewMarker, LiveMarker, FinalMarker}

\* event.get("competitions", [{}])[0]
FirstCompetition(ev) ==
    LET comps == Get(ev, "competitions", <<EmptyDict>>)
    IN  IF comps = <<>> THEN Raised("IndexError") ELSE Ok(comps[1])

StatusObj(ev) == Get(Get(ev, "status", EmptyDict), "type", EmptyDict)

RECURSIVE ScoreParts(_)
ScoreParts(competitors) ==
    IF competitors = <<>> THEN Ok(<<>>)
    ELSE IF ~HasTeamKey(Head(competitors), "displayName") THEN Raised("KeyError")
    ELSE LET rest == ScoreParts(Tail(competitors))
             part == <<Head(competitors)["team"]["displayName"], " (",
                       Get(Head(competitors), "score", "0"), ")">>
         IN  IF rest.raised THEN rest ELSE Ok(<<part>> \o rest.value)

LeaderName(l) == Get(Get(l.data, "athlete", EmptyDict), "displayName", "Unknown")

LeaderValue(l) == clean_display_value(Get(l.data, "displayValue", <<>>))

LeaderText(leaders) ==
    join(<<" | ">>,
         [i \in 1..Len(leaders) |->
             <<leaders[i].category, ": ", LeaderName(leaders[i]), " (">>
             \o LeaderValue(leaders[i]) \o <<")">>])

PreviewOdds(comp) ==
    IF Truthy(comp, "odds") THEN Get(comp["odds"][1], "details", "N/A") ELSE "N/A"

StateBranchText_PostOnly(state, preview, live, final) ==
    IF state = "post" THEN final
    ELSE IF state = "in" THEN live
    ELSE preview

StateBranchText(state, preview, live, final) ==
    IF state = "pre" THEN preview
    ELSE IF state = "in" THEN live
    ELSE final

transform_event_to_text(ev) ==
    LET status_obj == StatusObj(ev)
        state == Get(status_obj, "state", "pre")
        detail == Get(status_obj, "detail", "TBD")
        matchup == Get(ev, "name", "Unknown Matchup")
        Render(comp, score_line, leader_text, stats_block) ==
            Ok(StateBranchText(state,
                <<PreviewMarker, matchup, " at ",
                  Get(Get(comp, "venue", EmptyDict), "fullName", "TBD"),
                  ". TIME: ", Get(ev, "date", None),
                  ". ", "ODDS: ", PreviewOdds(comp), ". ", "PROJECTED LEADERS: ">>
                  \o leader_text \o <<".">>,
                <<LiveMarker, detail, "): ">> \o score_line \o <<". ">> \o stats_block
                  \o <<"LEADERS: ">> \o leader_text \o <<".">>,
                <<FinalMarker>> \o score_line \o <<". ">> \o stats_block
                  \o <<"TOP PERFORMERS: ">> \o leader_text \o <<".">>))
        Compose(comp, score_parts, leaders, team_stats_text) ==
            IF score_parts.raised THEN score_parts
            ELSE IF leaders.raised THEN leaders
            ELSE IF team_stats_text.raised THEN team_stats_text
            ELSE Render(comp,
                        join(<<" vs ">>, score_parts.value),
                        LeaderText(leaders.value),
                        IF team_stats_text.value # <<>>
                        THEN <<"TEAM STATS: ">> \o team_stats_text.value \o <<". ">>
                        ELSE <<>>)
        WithCompetition(first) ==
            IF first.raised THEN first
            ELSE Compose(first.value,
                         ScoreParts(Get(first.value, "competitors", <<>>)),
                         extract_leaders(first.value),
                         extract_team_stats(first.value))
    IN  WithCompetition(FirstCompetition(ev))

----------------------------------------------------------------------------
(* json.dumps / hashlib.md5 as used by scripts/ingest.py                   *)

P(x) == <<"p", x>>

S(x) == <<"s", x>>

Null == <<"n", "null">>

JsonScalar(v) == IF v = None THEN <<Null>> ELSE <<S(v)>>

RECURSIVE JsonMembers(_, _)
JsonMembers(d, keys) ==
    IF keys = <<>> THEN <<>>
    ELSE <<S(Head(keys)), P(":")>> \o JsonScalar(d[Head(keys)])
         \o (IF Len(keys) > 1 THEN <<P(",")>> ELSE <<>>)
         \o JsonMembers(d, Tail(keys))

json_dumps_object(d, keys) == <<P("{")>> \o JsonMembers(d, keys) \o <<P("}")>>

json_dumps_list(items) == <<P("[")>> \o join(<<P(",")>>, items) \o <<P("]")>>

\* json.dumps(raw, sort_keys=True): the canonical text of the raw mapping
Serialize(raw) == ToString(raw)

md5(text) == "md5(" \o text \o ")"

----------------------------------------------------------------------------
(* src/models.py and scripts/ingest.py: extract_smart_metadata.            *)
(* An Optional attribute of SportsMetadata holding None is an absent key   *)
(* of the mapping (its model_dump(exclude_none=True) form); GameContext    *)
(* and PerformanceStat keep their None values, as their plain model_dump() *)
(* is what gets serialized.                                                *)

GameContextFields == <<"venue", "location", "weather", "odds", "broadcast">>

PerformanceStatFields == <<"category", "athlete_name", "display_value", "team">>

OmitNone(d) == [k \in {j \in DOMAIN d : d[j] # None} |-> d[k]]

\* model_dump(exclude_none=True) of a mapping whose Optional[str] keys are given
OmitNoneIn(d, optional) == [k \in {j \in DOMAIN d : j \in optional => d[j] # None} |-> d[k]]

RECURSIVE TeamNames(_)
TeamNames(competitors) ==
    IF competitors = <<>> THEN Ok(<<>>)
    ELSE IF ~HasTeamKey(Head(competitors), "displayName") THEN Raised("KeyError")
    ELSE LET rest == TeamNames(Tail(competitors))
         IN  IF rest.raised THEN rest
             ELSE Ok(<<Head(competitors)["team"]["displayName"]>> \o rest.value)

ScoreList(competitors) ==
    [i \in 1..Len(competitors) |->
        competitors[i]["team"]["displayName"] \o " " \o Get(competitors[i], "score", "0")]

Performers(leaders) ==
    [i \in 1..Len(leaders) |->
        [category |-> leaders[i].category,
         athlete_name |-> LeaderName(leaders[i]),
         display_value |-> Flat(LeaderValue(leaders[i])),
         team |-> leaders[i].team]]

MetadataOdds(comp) ==
    LET odds_list == Get(comp, "odds", <<>>)
    IN  IF odds_list # <<>> THEN Get(odds_list[1], "details", None) ELSE "N/A"

GameContext(raw, comp) ==
    [venue |-> Get(Get(comp, "venue", EmptyDict), "fullName", None),
     location |-> Get(Get(Get(comp, "venue", EmptyDict), "address", EmptyDict), "city", None),
     weather |-> Get(Get(raw, "weather", EmptyDict), "displayValue", ""),
     odds |-> MetadataOdds(comp),
     broadcast |-> Get(raw, "broadcast", None)]

CategoryNames(raw, type) ==
    LET cats == Get(raw, "categories", <<>>)
    IN  {Get(cats[i], "description", None) : i \in {j \in 1..Len(cats) : Get(cats[j], "type", None) = type}}

IsNews(filename) == "news" \in Range(filename)

Sport(filename) == IF "nba" \in Range(filename) THEN "nba" ELSE "nfl"

SystemFields(raw, filename) ==
    [sport |-> Sport(filename),
     content_type |-> IF IsNews(filename) THEN "news" ELSE "score",
     content_hash |-> md5(Serialize(raw)),
     source_file |-> Flat(filename)]

extract_smart_metadata(raw, filename, stable_id) ==
    LET Fill(comp, competitors, teams, raw_leaders, team_stats_str) ==
            IF teams.raised THEN teams
            ELSE IF raw_leaders.raised THEN raw_leaders
            ELSE IF team_stats_str.raised THEN team_stats_str
            ELSE Ok(SystemFields(raw, filename)
                    @@ [teams |-> Range(teams.value),
                        athletes |-> {LeaderName(raw_leaders.value[i]) :
                                        i \in 1..Len(raw_leaders.value)},
                        performers |-> Performers(raw_leaders.value),
                        scores |-> ScoreList(competitors),
                        context |-> GameContext(raw, comp),
                        team_stats |-> team_stats_str.value]
                    @@ OmitNone([headline |-> Get(raw, "name", None),
                                 event_date |-> Get(raw, "date", None),
                                 status |-> Get(StatusObj(raw), "state", None)]))
        WithCompetitors(comp, competitors) ==
            Fill(comp, competitors, TeamNames(competitors),
                 extract_leaders(comp), extract_team_stats(comp))
        WithCompetition(first) ==
            IF first.raised THEN first
            ELSE WithCompetitors(first.value, Get(first.value, "competitors", <<>>))
    IN  IF IsNews(filename)
        THEN Ok(SystemFields(raw, filename)
                @@ [teams |-> CategoryNames(raw, "team"),
                    athletes |-> CategoryNames(raw, "athlete"),
                    performers |-> <<>>,
                    scores |-> <<>>]
                @@ OmitNone([headline |-> Get(raw, "headline", None),
                             event_date |-> Get(raw, "published", None),
                             status |-> "news"]))
        ELSE WithCompetition(FirstCompetition(raw))

----------------------------------------------------------------------------
(* scripts/ingest.py: run_ingestion, the body of the loop over one file's  *)
(* documents (lines 174-205)                                               *)

StableId_ContentHash(raw_json) == "doc-" \o md5(Serialize(raw_json))

StableId(raw_json) ==
    LET entity_id == IF Has(raw_json, "id") /\ raw_json["id"] # ""
                     THEN raw_json["id"]
                     ELSE md5(Serialize(raw_json))
    IN  "doc-" \o entity_id

SerializePerformers(performers) ==
    json_dumps_list([i \in 1..Len(performers) |->
                        json_dumps_object(performers[i], PerformanceStatFields)])

\* meta_dict after lines 195-199
MetaDict(smart_meta) ==
    ("performers" :> SerializePerformers(smart_meta["performers"]))
    @@ (IF Has(smart_meta, "context")
        THEN "context" :> json_dumps_object(smart_meta["context"], GameContextFields)
        ELSE EmptyDict)
    @@ smart_meta

IngestDoc(raw_json, filename) ==
    LET Record(stable_id, smart_meta, text) ==
            IF text.raised THEN text
            ELSE Ok(("id" :> stable_id) @@ ("chunk_text" :> text.value)
                    @@ MetaDict(smart_meta.value))
        Build(stable_id, smart_meta) ==
            IF smart_meta.raised THEN smart_meta
            ELSE Record(stable_id, smart_meta,
                        IF smart_meta.value["content_type"] = "news"
                        THEN Ok(<<"NEWS: ", Get(smart_meta.value, "headline", None), ". ",
                                  Get(raw_json, "description", "")>>)
                        ELSE transform_event_to_text(raw_json))
        WithId(stable_id) ==
            Build(stable_id, extract_smart_metadata(raw_json, filename, stable_id))
    IN  WithId(StableId(raw_json))

----------------------------------------------------------------------------
(* Raw feed objects (spec section 6: event/game object), with every        *)
(* optional sub-structure present or missing                               *)

Unset == Ok(<<>>)

Leader == [athlete |-> [displayName |-> "Ann"], displayValue |-> <<"1", "/", "2", ",", " ", "a">>]

LeaderCategories ==
    { [displayName |-> "Points", leaders |-> <<Leader>>],
      [displayName |-> "Points", leaders |-> <<>>],
      [leaders |-> <<Leader>>] }

Statistics ==
    { [name |-> "fieldGoalPct", abbreviation |-> "FG", displayValue |-> "50"],
      [name |-> "rebounds"],
      [abbreviation |-> "FG", displayValue |-> "50"] }

FullTeam == [displayName |-> "Lakers", abbreviation |-> "LAL"]

FullCompetitor ==
    [team |-> FullTeam, score |-> "110",
     leaders |-> <<[displayName |-> "Points", leaders |-> <<Leader>>]>>,
     statistics |-> <<[name |-> "fieldGoalPct", abbreviation |-> "FG", displayValue |-> "50"]>>]

Competitors ==
    { FullCompetitor,
      [team |-> FullTeam],
      [score |-> "110"],
      [team |-> [abbreviation |-> "LAL"], score |-> "110"],
      [team |-> [displayName |-> "Lakers"], score |-> "110"],
      [team |-> FullTeam, leaders |-> <<[leaders |-> <<Leader>>]>>],
      [team |-> FullTeam, statistics |-> <<[abbreviation |-> "FG", displayValue |-> "50"]>>],
      [team |-> FullTeam, statistics |-> <<[name |-> "rebounds"]>>] }

Optional(k, values) == {EmptyDict} \cup {k :> v : v \in values}

OddsLists == { <<>>, <<EmptyDict>>, <<[details |-> "LAL -3.5"]>> }

Venues == { [fullName |-> "Arena", address |-> [city |-> "LA"]] }

Competitions ==
    { c @@ o @@ v @@ l :
        c \in Optional("competitors", SeqsUpTo(Competitors, MaxCompetitors)),
        o \in Optional("odds", OddsLists),
        v \in Optional("venue", Venues),
        l \in Optional("leaders", {<<cat>> : cat \in LeaderCategories}) }

Statuses ==
    {EmptyDict}
    \cup {[type |-> [state |-> st, detail |-> "Q3"]] : st \in {"pre", "in", "post", "postponed"}}

Events ==
    { [id |-> "g1", name |-> "LAL at BOS", date |-> "2026-01-01"] @@ c @@ st :
        c \in Optional("competitions", {<<>>} \cup {<<comp>> : comp \in Competitions}),
        st \in Optional("status", Statuses) }

ScoreFile == <<"nba", "-", "score", ".json">>

InitParse ==
    /\ event \in Events
    /\ chunk_text = Unset
    /\ record = Unset
    /\ parse_pc = {}

IdleParse ==
    /\ event = EmptyDict
    /\ chunk_text = Unset
    /\ record = Unset
    /\ parse_pc = {}

TransformEventToText ==
    /\ "text" \notin parse_pc
    /\ chunk_text' = transform_event_to_text(event)
    /\ parse_pc' = parse_pc \cup {"text"}
    /\ UNCHANGED <<event, record>>

IngestEvent ==
    /\ "record" \notin parse_pc
    /\ record' = IngestDoc(event, ScoreFile)
    /\ parse_pc' = parse_pc \cup {"record"}
    /\ UNCHANGED <<event, chunk_text>>

----------------------------------------------------------------------------
IdleIngest ==
    /\ data = EmptyDict
    /\ loaded = <<>>
    /\ all_records = <<>>
    /\ unique_records = <<>>
    /\ store = EmptyDict
    /\ replaced = {}
    /\ runs = 0
    /\ ingest_pc = "idle"

IdleSync ==
    /\ fetch = EmptyDict
    /\ completed = <<>>
    /\ sync_records = <<>>
    /\ embed_error = 0
    /\ upserts = <<>>
    /\ index = EmptyDict
    /\ sync_pc = "idle"

IdleSearch ==
    /\ response = Ok(EmptyDict)
    /\ results = <<>>
    /\ search_pc = "idle"

----------------------------------------------------------------------------
(* Specifications                                                          *)

NextClean == CleanDisplayValue /\ UNCHANGED <<parseVars, ingestVars, syncVars, searchVars>>

StartClean == InitClean /\ IdleParse /\ IdleIngest /\ IdleSync /\ IdleSearch

SpecClean == StartClean /\ [][NextClean]_vars

NextParse ==
    \/ TransformEventToText /\ UNCHANGED <<cleanVars, ingestVars, syncVars, searchVars>>
    \/ IngestEvent /\ UNCHANGED <<cleanVars, ingestVars, syncVars, searchVars>>

StartParse == IdleClean /\ InitParse /\ IdleIngest /\ IdleSync /\ IdleSearch

SpecParse == StartParse /\ [][NextParse]_vars

----------------------------------------------------------------------------
(* Properties of the parsing and text-synthesis functions                  *)

TextDone == "text" \in parse_pc

RecordDone == "record" \in parse_pc

EventState == Get(StatusObj(event), "state", "absent")

\* the competition the parsers read, when there is one to read
EventHasNoOdds ==
    /\ Get(event, "competitions", <<EmptyDict>>) # <<>>
    /\ ~Truthy(Get(event, "competitions", <<EmptyDict>>)[1], "odds")

Follows(text, a, b) == \E i \in 1..(Len(text) - 1) : text[i] = a /\ text[i + 1] = b

MarkerCount(text) == Cardinality({i \in 1..Len(text) : text[i] \in StateMarkers})

\* C6: for every game event whose competition has no odds array (absent or
\* empty) the preview text shows "ODDS: N/A", and the serialized context
\* stored for the event has no odds key at all.
C6_OddsOmittedFromStoredContext ==
    EventHasNoOdds =>
        /\ (TextDone /\ ~chunk_text.raised /\ EventState \in {"pre", "absent"})
              => Follows(chunk_text.value, "ODDS: ", "N/A")
        /\ (RecordDone /\ ~record.raised)
              => S("odds") \notin Range(record.value["context"])

\* C7: clean_display_value returns the components without "/", trimmed and
\* rejoined with ", ", and "N/A" when the input is empty or when every
\* component contains "/".
C7_CleanDisplayValue ==
    clean_pc = "return" =>
        LET kept == StripAll(NoSlashParts(split(val, ",")))
        IN  cleaned = IF val = <<>> \/ kept = <<>> THEN NA ELSE join(CommaSpace, kept)

ExpectedMarker(state) ==
    CASE state = "pre" -> PreviewMarker
      [] state = "in" -> LiveMarker
      [] OTHER -> FinalMarker

\* C8: every text transform_event_to_text produces carries exactly one state
\* marker, and it is the one of the event's status.type.state: PREVIEW for
\* pre, LIVE GAME for in, FINAL SCORE for post or any other state.
C8_TextBranchesOnStatus ==
    (TextDone /\ ~chunk_text.raised) =>
        /\ MarkerCount(chunk_text.value) = 1
        /\ EventState # "absent" => ExpectedMarker(EventState) \in Range(chunk_text.value)

C8_Witness ==
    /\ TextDone /\ ~chunk_text.raised
    /\ EventState = "post"
    /\ Has(event, "competitions")
    /\ Head(chunk_text.value) = FinalMarker
    /\ Len(Get(event["competitions"][1], "competitors", <<>>)) = 2

\* C9: parsing a raw event with missing or empty optional sub-structures
\* never raises, neither in transform_event_to_text nor in building the
\* record's metadata.
C9_GracefulParsing ==
    /\ TextDone => ~chunk_text.raised
    /\ RecordDone => ~record.raised

----------------------------------------------------------------------------
(* json.loads as used by src/tools/retriever.py. Decoded values carry the  *)
(* Python type they decode to.                                             *)

PyList(items) == [t |-> "list", v |-> items]

PyDict(members) == [t |-> "dict", v |-> members]

PyStr(text) == [t |-> "str", v |-> text]

PyNone == [t |-> "None", v |-> None]

Parsed(value, rest) == [ok |-> TRUE, val |-> value, rest |-> rest]

ParseFail == [ok |-> FALSE, val |-> PyNone, rest |-> <<>>]

RECURSIVE ParseValue(_), ParseElements(_, _), ParseMembers(_, _)

ParseValue(toks) ==
    IF toks = <<>> THEN ParseFail
    ELSE IF Head(toks)[1] = "s" THEN Parsed(PyStr(Head(toks)[2]), Tail(toks))
    ELSE IF Head(toks) = Null THEN Parsed(PyNone, Tail(toks))
    ELSE IF Head(toks) = P("[")
         THEN IF Len(toks) > 1 /\ toks[2] = P("]")
              THEN Parsed(PyList(<<>>), Tail(Tail(toks)))
              ELSE ParseElements(Tail(toks), <<>>)
    ELSE IF Head(toks) = P("{")
         THEN IF Len(toks) > 1 /\ toks[2] = P("}")
              THEN Parsed(PyDict(EmptyDict), Tail(Tail(toks)))
              ELSE ParseMembers(Tail(toks), EmptyDict)
    ELSE ParseFail

ParseElements(toks, acc) ==
    LET v == ParseValue(toks)
    IN  IF ~v.ok \/ v.rest = <<>> THEN ParseFail
        ELSE IF Head(v.rest) = P("]") THEN Parsed(PyList(Append(acc, v.val)), Tail(v.rest))
        ELSE IF Head(v.rest) = P(",") THEN ParseElements(Tail(v.rest), Append(acc, v.val))
        ELSE ParseFail

ParseMembers(toks, acc) ==
    IF Len(toks) < 3 \/ toks[1][1] # "s" \/ toks[2] # P(":") THEN ParseFail
    ELSE LET v == ParseValue(SubSeq(toks, 3, Len(toks)))
             members == (toks[1][2] :> v.val) @@ acc
         IN  IF ~v.ok \/ v.rest = <<>> THEN ParseFail
             ELSE IF Head(v.rest) = P("}") THEN Parsed(PyDict(members), Tail(v.rest))
             ELSE IF Head(v.rest) = P(",") THEN ParseMembers(Tail(v.rest), members)
             ELSE ParseFail

json_loads(text) ==
    LET v == ParseValue(text)
    IN  IF v.ok /\ v.rest = <<>> THEN Ok(v.val) ELSE Raised("JSONDecodeError")

----------------------------------------------------------------------------
(* src/tools/retriever.py: SportsRetriever.search                          *)

\* lines 45-50 and 52-57: the default, replaced by the decoded value when
\* the field is stored and json.loads does not raise
DecodeField(fields, key, default) ==
    IF Has(fields, key) /\ ~json_loads(fields[key]).raised
    THEN json_loads(fields[key]).value
    ELSE default

search_DropMalformed(resp) ==
    IF resp.raised THEN <<>>
    ELSE LET hits == Get(Get(resp.value, "result", EmptyDict), "hits", <<>>)
             sound == SelectSeq(hits, LAMBDA h :
                         /\ Has(h["fields"], "performers") => ~json_loads(h["fields"]["performers"]).raised
                         /\ Has(h["fields"], "context") => ~json_loads(h["fields"]["context"]).raised)
         IN  [i \in 1..Len(sound) |->
                 [score |-> sound[i]["_score"], text |-> sound[i]["fields"]["chunk_text"],
                  headline |-> sound[i]["fields"]["headline"], date |-> sound[i]["fields"]["event_date"],
                  performers |-> IF Has(sound[i]["fields"], "performers")
                                 THEN json_loads(sound[i]["fields"]["performers"]).value
                                 ELSE PyList(<<>>),
                  context |-> IF Has(sound[i]["fields"], "context")
                              THEN json_loads(sound[i]["fields"]["context"]).value
                              ELSE PyDict(EmptyDict)]]

HitResult(hit) ==
    LET fields == Get(hit, "fields", EmptyDict)
    IN  [score |-> Get(hit, "_score", None),
         text |-> Get(fields, "chunk_text", None),
         headline |-> Get(fields, "headline", None),
         date |-> Get(fields, "event_date", None),
         performers |-> DecodeField(fields, "performers", PyList(<<>>)),
         context |-> DecodeField(fields, "context", PyDict(EmptyDict))]

\* resp is the outcome of index.search_records: raised, or the response
search(resp) ==
    IF resp.raised THEN <<>>
    ELSE LET hits == Get(Get(resp.value, "result", EmptyDict), "hits", <<>>)
         IN  [i \in 1..Len(hits) |-> HitResult(hits[i])]

WrittenPerformers ==
    SerializePerformers(Performers(extract_leaders([competitors |-> <<FullCompetitor>>]).value))

WrittenContext == json_dumps_object(GameContext(EmptyDict, EmptyDict), GameContextFields)

StoredPerformers == SeqsUpTo({P("["), P("]")}, MaxJsonLen) \cup {WrittenPerformers}

StoredContexts == SeqsUpTo({P("{"), P("}")}, MaxJsonLen) \cup {WrittenContext}

\* the fields of a hit: one of the two JSON strings ranges over every stored
\* text while the other is absent, as written by the ingestion, or (the
\* context) truncated
HitFields ==
    LET card == [chunk_text |-> "card", headline |-> "LAL at BOS", event_date |-> "2026-01-01"]
    IN  { card @@ p @@ c :
            p \in Optional("performers", StoredPerformers),
            c \in Optional("context", {WrittenContext, <<P("{")>>}) }
        \cup
        { card @@ p @@ c :
            p \in Optional("performers", {WrittenPerformers}),
            c \in Optional("context", StoredContexts) }

EmptyResponse == Ok([result |-> [hits |-> <<>>]])

ResponseHits == Get(Get(response.value, "result", EmptyDict), "hits", <<>>)

InitSearch ==
    /\ response = EmptyResponse
    /\ results = <<>>
    /\ search_pc = "query"

\* index.search_records, the store's side: it ranks one more hit into its
\* response; scores descend with the position
StoreRanksHit ==
    /\ search_pc = "query"
    /\ ~response.raised
    /\ Len(ResponseHits) < MaxHits
    /\ \E f \in HitFields :
          response' = Ok([result |-> [hits |->
              Append(ResponseHits, [_id |-> "doc-g1",
                                    _score |-> ToString(MaxHits - Len(ResponseHits)),
                                    fields |-> f])]])
    /\ UNCHANGED <<results, search_pc>>

\* index.search_records raises
StoreFails ==
    /\ search_pc = "query"
    /\ response = EmptyResponse
    /\ response' = Raised("PineconeException")
    /\ UNCHANGED <<results, search_pc>>

Search ==
    /\ search_pc = "query"
    /\ results' = search(response)
    /\ search_pc' = "return"
    /\ UNCHANGED response

NextSearch ==
    \/ StoreRanksHit /\ UNCHANGED <<cleanVars, parseVars, ingestVars, syncVars>>
    \/ StoreFails /\ UNCHANGED <<cleanVars, parseVars, ingestVars, syncVars>>
    \/ Search /\ UNCHANGED <<cleanVars, parseVars, ingestVars, syncVars>>

StartSearch == IdleClean /\ IdleParse /\ IdleIngest /\ IdleSync /\ InitSearch

SpecSearch == StartSearch /\ [][NextSearch]_vars

Malformed(hit, key) == Has(hit["fields"], key) /\ json_loads(hit["fields"][key]).raised

\* C10: search returns one result per hit of the store's response, in the
\* same order; a stored performers (context) string that is not valid JSON
\* gives an empty list (empty mapping) in that hit's result.
C10_FailSoftRead ==
    (search_pc = "return" /\ ~response.raised) =>
        /\ Len(results) = Len(ResponseHits)
        /\ \A i \in 1..Len(ResponseHits) :
              /\ i <= Len(results)
              /\ results[i].score = ResponseHits[i]["_score"]
              /\ results[i].text = ResponseHits[i]["fields"]["chunk_text"]
              /\ Malformed(ResponseHits[i], "performers") => results[i].performers = PyList(<<>>)
              /\ Malformed(ResponseHits[i], "context") => results[i].context = PyDict(EmptyDict)

C10_Witness ==
    /\ search_pc = "return" /\ ~response.raised
    /\ Len(ResponseHits) = 2 /\ Len(results) = 2
    /\ Malformed(ResponseHits[1], "performers")
    /\ Malformed(ResponseHits[1], "context")
    /\ Has(ResponseHits[2]["fields"], "performers") /\ ~Malformed(ResponseHits[2], "performers")
    /\ results[2].performers # PyList(<<>>)

----------------------------------------------------------------------------
(* scripts/ingest.py: run_ingestion                                        *)

\* file_schema_map, in insertion order; a name is kept in the pieces the
\* code tests it for ("news" in filename, "nba" in filename)
file_schema_map ==
    << <<"nba", "-", "news", ".json">>,
       <<"nfl", "-", "news", ".json">>,
       <<"nba", "-", "score", ".json">>,
       <<"nfl", "-", "score", ".json">> >>

\* {r['id']: r for r in all_records}: a later record replaces the value of
\* its id and keeps the position the id was first inserted at
DictPut_KeepFirst(entries, r) ==
    IF \E i \in 1..Len(entries) : entries[i]["id"] = r["id"] THEN entries ELSE Append(entries, r)

DictPut(entries, r) ==
    IF \E i \in 1..Len(entries) : entries[i]["id"] = r["id"]
    THEN [i \in 1..Len(entries) |-> IF entries[i]["id"] = r["id"] THEN r ELSE entries[i]]
    ELSE Append(entries, r)

RECURSIVE DictOf(_, _)
DictOf(entries, recs) ==
    IF recs = <<>> THEN entries ELSE DictOf(DictPut(entries, Head(recs)), Tail(recs))

\* list({r['id']: r for r in all_records}.values())
Deduplicate(recs) == DictOf(<<>>, recs)

\* index.upsert_records: create or replace, keyed by id
RECURSIVE UpsertRecords(_, _)
UpsertRecords(st, recs) ==
    IF recs = <<>> THEN st
    ELSE UpsertRecords((Head(recs)["id"] :> Head(recs)) @@ st, Tail(recs))

\* loader.load() over the files that exist, in file_schema_map order
RECURSIVE LoadFrom(_, _)
LoadFrom(dir, files) ==
    IF files = <<>> THEN <<>>
    ELSE (IF Has(dir, Flat(Head(files)))
          THEN [i \in 1..Len(dir[Flat(Head(files))]) |->
                   [file |-> Head(files), raw |-> dir[Flat(Head(files))][i]]]
          ELSE <<>>)
         \o LoadFrom(dir, Tail(files))

\* the records built before the first document that raises
RECURSIVE IngestAll(_)
IngestAll(docs) ==
    LET Collect(rec, rest) ==
            IF rec.raised THEN Raised(<<>>)
            ELSE IF rest.raised THEN Raised(<<rec.value>> \o rest.value)
            ELSE Ok(<<rec.value>> \o rest.value)
    IN  IF docs = <<>> THEN Ok(<<>>)
        ELSE Collect(IngestDoc(Head(docs).raw, Head(docs).file), IngestAll(Tail(docs)))

GameStates == <<"pre", "in", "post">>

RawIds == {"g1", "g2"}

GameDoc(st) ==
    [name |-> "LAL at BOS", date |-> "2026-01-01",
     status |-> [type |-> [state |-> st, detail |-> "Q3"]],
     competitions |-> <<[competitors |-> <<[team |-> FullTeam, score |-> "110"]>>]>>]

\* games in each stage of their lifecycle, a record whose id is empty and
\* a record with an empty competitions list
RawEvents ==
    {[id |-> i] @@ GameDoc(GameStates[k]) : i \in RawIds, k \in 1..3}
    \cup {[id |-> "", name |-> "LAL at BOS"]}
    \cup {[id |-> "g2", name |-> "LAL at BOS", competitions |-> <<>>]}

\* an article that shares its id with a game, and one without an id
RawArticles ==
    {i @@ [headline |-> "Trade", description |-> "Details"] : i \in Optional("id", {"g1"})}

DocsOf(filename) == IF IsNews(filename) THEN RawArticles ELSE RawEvents

Sum4(n) == n[1] + n[2] + n[3] + n[4]

\* the data directories: a file that exists holds at least one document
DataDirOf(contents) ==
    LET present == {k \in 1..4 : contents[k] # <<>>}
        NameOf(k) == Flat(file_schema_map[k])
    IN  [name \in {NameOf(k) : k \in present} |->
            contents[CHOOSE k \in present : NameOf(k) = name]]

DataDirs ==
    UNION { { DataDirOf(<<a, b, c, d>>) :
                a \in [1..n[1] -> DocsOf(file_schema_map[1])],
                b \in [1..n[2] -> DocsOf(file_schema_map[2])],
                c \in [1..n[3] -> DocsOf(file_schema_map[3])],
                d \in [1..n[4] -> DocsOf(file_schema_map[4])] } :
            n \in {m \in [1..4 -> 0..MaxDocs] : Sum4(m) <= MaxDocs} }

InitIngest ==
    /\ data \in DataDirs
    /\ loaded = <<>>
    /\ all_records = <<>>
    /\ unique_records = <<>>
    /\ store = EmptyDict
    /\ replaced = {}
    /\ runs = 0
    /\ ingest_pc = "idle"

\* one run of the script
RunIngestion ==
    LET Finish(built) ==
            /\ all_records' = built.value
            /\ IF built.raised
               THEN /\ ingest_pc' = "raised"
                    /\ UNCHANGED <<unique_records, store, replaced>>
               ELSE /\ ingest_pc' = "done"
                    /\ IF built.value # <<>>
                       THEN /\ unique_records' = Deduplicate(built.value)
                            /\ store' = UpsertRecords(store, unique_records')
                            /\ replaced' = replaced \cup
                                 {k \in DOMAIN store :
                                    k \in DOMAIN store' /\ store'[k] # store[k]}
                       ELSE UNCHANGED <<unique_records, store, replaced>>
    IN  /\ runs < MaxRuns
        /\ runs' = runs + 1
        /\ loaded' = LoadFrom(data, file_schema_map)
        /\ Finish(IngestAll(loaded'))
        /\ UNCHANGED data

NextState(st) == IF st = "pre" THEN "in" ELSE "post"

\* between two runs the feed is downloaded again: a game has moved on in its
\* lifecycle (scheduled, live, final) and its scores with it
GameAdvances ==
    /\ runs < MaxRuns
    /\ \E name \in DOMAIN data : \E i \in 1..Len(data[name]) :
          LET raw == data[name][i]
          IN  /\ Has(raw, "status")
              /\ raw["status"]["type"]["state"] # "post"
              /\ data' = [data EXCEPT ![name][i] =
                            [status |-> [type |-> [state |-> NextState(raw["status"]["type"]["state"]),
                                                   detail |-> "Q3"]]] @@ raw]
    /\ UNCHANGED <<loaded, all_records, unique_records, store, replaced, runs, ingest_pc>>

Next ==
    \/ RunIngestion /\ UNCHANGED <<cleanVars, parseVars, syncVars, searchVars>>
    \/ GameAdvances /\ UNCHANGED <<cleanVars, parseVars, syncVars, searchVars>>

Init == IdleClean /\ IdleParse /\ InitIngest /\ IdleSync /\ IdleSearch

Spec == Init /\ [][Next]_vars

----------------------------------------------------------------------------
(* Properties of run_ingestion                                             *)

HasRawId(raw) == Has(raw, "id") /\ raw["id"] # ""

\* the raw document a stored record was built from, by its content hash
SourceOf(rec) ==
    CHOOSE d \in RawEvents \cup RawArticles : md5(Serialize(d)) = rec["content_hash"]

KeysOfRawId(g) ==
    {k \in DOMAIN store : HasRawId(SourceOf(store[k])) /\ SourceOf(store[k])["id"] = g}

\* C1: every raw record with a non-empty id gets the identifier "doc-" + id
\* whatever its status, scores or other fields, so however often a game is
\* re-ingested the store holds at most one record for its raw id, under
\* that key.
C1_IdentifierStability ==
    /\ \A i \in 1..Len(all_records) :
          HasRawId(loaded[i].raw) => all_records[i]["id"] = "doc-" \o loaded[i].raw["id"]
    /\ \A g \in RawIds : KeysOfRawId(g) \subseteq {"doc-" \o g}

C1_Witness ==
    /\ runs = 3
    /\ ingest_pc = "done"
    /\ DOMAIN store = {"doc-g1"}
    /\ "doc-g1" \in replaced
    /\ store["doc-g1"]["status"] = "post"

Ids(recs) == {recs[i]["id"] : i \in 1..Len(recs)}

LastWithId(recs, id) ==
    recs[CHOOSE i \in 1..Len(recs) :
            recs[i]["id"] = id /\ \A j \in (i + 1)..Len(recs) : recs[j]["id"] # id]

\* C2: the list run_ingestion submits to the store holds exactly one record
\* per distinct identifier of the batch, and for each identifier it is the
\* record that occurs last in batch order.
C2_BatchDeduplication ==
    (ingest_pc = "done" /\ all_records # <<>>) =>
        /\ Ids(unique_records) = Ids(all_records)
        /\ Cardinality(Ids(unique_records)) = Len(unique_records)
        /\ \A i \in 1..Len(unique_records) :
              unique_records[i] = LastWithId(all_records, unique_records[i]["id"])

C2_Witness ==
    /\ ingest_pc = "done"
    /\ Len(all_records) = 2
    /\ all_records[1]["id"] = all_records[2]["id"]
    /\ all_records[1]["chunk_text"] # all_records[2]["chunk_text"]
    /\ unique_records = <<all_records[2]>>

----------------------------------------------------------------------------
(* scripts/update_vector_db.py: SportsDataSync                             *)

\* sync, lines 87-92: the fetches, in the order they are handed to gather
tasks ==
    << [sport |-> "football", league |-> "nfl", type |-> "news"],
       [sport |-> "basketball", league |-> "nba", type |-> "news"],
       [sport |-> "football", league |-> "nfl", type |-> "scoreboard"],
       [sport |-> "basketball", league |-> "nba", type |-> "scoreboard"] >>

generate_hash(text) == md5(text)

\* the provider's vector for a text
get_embedding(text) == "embedding(" \o text \o ")"

\* The discovery attribute (SearchOptimization) is not declared by
\* src/models.py and is left out of the metadata.
CategoryList(art, type) ==
    LET cats == Get(art, "categories", <<>>)
        chosen == SelectSeq(cats, LAMBDA cat : Get(cat, "type", None) = type)
    IN  [i \in 1..Len(chosen) |-> Get(chosen[i], "description", None)]

NewsRecord(art, sport, league) ==
    [id |-> "news-" \o art["id"],
     chunk_text |-> art["headline"],
     metadata |-> [sport |-> sport, content_type |-> "news",
                   content_hash |-> generate_hash(art["headline"]),
                   source_file |-> sport \o "-" \o league \o "-news",
                   headline |-> art["headline"],
                   summary |-> Get(art, "description", None),
                   event_date |-> Get(art, "published", None),
                   athletes |-> CategoryList(art, "athlete"),
                   teams |-> CategoryList(art, "team")]]

RECURSIVE NewsRecords(_, _, _)
NewsRecords(articles, sport, league) ==
    IF articles = <<>> THEN Ok(<<>>)
    ELSE IF ~(Has(Head(articles), "headline") /\ Has(Head(articles), "id")) THEN Raised("KeyError")
    ELSE LET rest == NewsRecords(Tail(articles), sport, league)
         IN  IF rest.raised THEN rest
             ELSE Ok(<<NewsRecord(Head(articles), sport, league)>> \o rest.value)

process_news(payload, sport, league) == NewsRecords(Get(payload, "articles", <<>>), sport, league)

ScoreRecord(ev, sport, league) ==
    [id |-> "score-" \o ev["id"],
     chunk_text |-> ev["name"],
     metadata |-> [sport |-> sport, content_type |-> "score",
                   content_hash |-> generate_hash(ev["name"]),
                   source_file |-> sport \o "-" \o league \o "-scores",
                   headline |-> ev["name"],
                   summary |-> None,
                   status |-> ev["status"]["type"]["state"],
                   event_date |-> ev["date"],
                   scores |-> [i \in 1..Len(ev["competitions"][1]["competitors"]) |->
                                  ev["competitions"][1]["competitors"][i]["team"]["displayName"]
                                  \o " " \o ev["competitions"][1]["competitors"][i]["score"]],
                   teams |-> [i \in 1..Len(ev["competitions"][1]["competitors"]) |->
                                 ev["competitions"][1]["competitors"][i]["team"]["displayName"]]]]

WellFormedEvent(ev) ==
    /\ \A k \in {"id", "name", "date", "status", "competitions"} : Has(ev, k)
    /\ ev["competitions"] # <<>>
    /\ Has(ev["competitions"][1], "competitors")
    /\ \A i \in 1..Len(ev["competitions"][1]["competitors"]) :
          /\ HasTeamKey(ev["competitions"][1]["competitors"][i], "displayName")
          /\ Has(ev["competitions"][1]["competitors"][i], "score")
    /\ Has(ev["status"], "type") /\ Has(ev["status"]["type"], "state")

RECURSIVE ScoreRecords(_, _, _)
ScoreRecords(events, sport, league) ==
    IF events = <<>> THEN Ok(<<>>)
    ELSE IF ~WellFormedEvent(Head(events)) THEN Raised("KeyError")
    ELSE LET rest == ScoreRecords(Tail(events), sport, league)
         IN  IF rest.raised THEN rest
             ELSE Ok(<<ScoreRecord(Head(events), sport, league)>> \o rest.value)

process_scores(payload, sport, league) == ScoreRecords(Get(payload, "events", <<>>), sport, league)

\* sync, lines 97-100, for the result of one fetch
ProcessResult(t) ==
    IF tasks[t].type = "news"
    THEN process_news(fetch[t].payload, tasks[t].sport, tasks[t].league)
    ELSE process_scores(fetch[t].payload, tasks[t].sport, tasks[t].league)

\* asyncio.as_completed in place of gather: the results in the order in
\* which the fetches completed
gather_AsCompleted == completed

\* results = await asyncio.gather(*tasks), line 93: the tasks whose results
\* make up the list, in the order of the list. gather keeps the order of its
\* arguments, whatever the order in which they complete.
gather == [t \in 1..Len(tasks) |-> t]

\* await asyncio.gather(*tasks) returns once every fetch has returned
GatherDone == \A t \in 1..Len(tasks) : fetch[t].status = "done"

\* sync, lines 95-100: the results are walked in the order of the list
RECURSIVE CollectFrom(_)
CollectFrom(k) ==
    IF k > Len(gather) THEN Ok(<<>>)
    ELSE LET mine == ProcessResult(gather[k])
             rest == CollectFrom(k + 1)
         IN  IF mine.raised THEN mine
             ELSE IF rest.raised THEN rest
             ELSE Ok(mine.value \o rest.value)

\* sync, lines 104-110
Vectorize(recs) ==
    [i \in 1..Len(recs) |->
        [id |-> recs[i].id,
         values |-> get_embedding(recs[i].metadata.headline \o ": "
                       \o (IF recs[i].metadata.summary = None THEN "" ELSE recs[i].metadata.summary)),
         metadata |-> OmitNoneIn(recs[i].metadata, {"headline", "summary", "event_date", "status"})]]

\* ids of the articles of a news feed
FeedIds == {"1", "2"}

\* ids of the events of a scoreboard
EventIds == {"1"}

Article(i) == [id |-> i, headline |-> "Trade", description |-> "Details", published |-> "2026-01-01"]

Scoreboard(i) ==
    [id |-> i, name |-> "LAL at BOS", date |-> "2026-01-01",
     status |-> [type |-> [state |-> "post"]],
     competitions |-> <<[competitors |-> <<[team |-> FullTeam, score |-> "110"]>>]>>]

Payloads(t) ==
    IF tasks[t].type = "news"
    THEN {[articles |-> [k \in DOMAIN ids |-> Article(ids[k])]] : ids \in SeqsUpTo(FeedIds, MaxItems)}
    ELSE {[events |-> [k \in DOMAIN ids |-> Scoreboard(ids[k])]] : ids \in SeqsUpTo(EventIds, MaxItems)}

Pending == [status |-> "pending", payload |-> EmptyDict]

InitSync ==
    /\ fetch = [t \in 1..Len(tasks) |-> Pending]
    /\ completed = <<>>
    /\ sync_records = <<>>
    /\ embed_error = 0
    /\ upserts = <<>>
    /\ index = EmptyDict
    /\ sync_pc = "gather"

\* fetch_api returns resp.json() for one of the gathered fetches
FetchReturns ==
    /\ sync_pc = "gather"
    /\ \E t \in 1..Len(tasks) : \E payload \in Payloads(t) :
          /\ fetch[t].status = "pending"
          /\ fetch' = [fetch EXCEPT ![t] = [status |-> "done", payload |-> payload]]
          /\ completed' = Append(completed, t)
    /\ UNCHANGED <<sync_records, embed_error, upserts, index, sync_pc>>

\* client.get raises in one of the gathered fetches
FetchRaises ==
    /\ sync_pc = "gather"
    /\ \E t \in 1..Len(tasks) :
          /\ fetch[t].status = "pending"
          /\ fetch' = [fetch EXCEPT ![t] = [status |-> "failed", payload |-> EmptyDict]]
    /\ UNCHANGED <<completed, sync_records, embed_error, upserts, index, sync_pc>>

\* await asyncio.gather(*tasks) re-raises the exception of a failed fetch in
\* sync, which has no handler; asyncio.run cancels the fetches still pending
GatherRaises ==
    /\ sync_pc = "gather"
    /\ \E t \in 1..Len(tasks) : fetch[t].status = "failed"
    /\ fetch' = [t \in 1..Len(tasks) |->
                    IF fetch[t].status = "pending"
                    THEN [status |-> "cancelled", payload |-> EmptyDict]
                    ELSE fetch[t]]
    /\ sync_pc' = "raised"
    /\ UNCHANGED <<completed, sync_records, embed_error, upserts, index>>

\* gather returns and the rest of sync runs: lines 95-114. raise_at is the
\* record at which the embedding provider fails (0: it never does)
SyncResumes ==
    /\ sync_pc = "gather"
    /\ GatherDone
    /\ LET collected == CollectFrom(1)
       IN  IF collected.raised
           THEN /\ sync_pc' = "raised"
                /\ UNCHANGED <<sync_records, embed_error, upserts, index>>
           ELSE /\ sync_records' = collected.value
                /\ \E raise_at \in 0..Len(collected.value) :
                      /\ embed_error' = raise_at
                      /\ IF raise_at # 0
                         THEN /\ sync_pc' = "raised"
                              /\ UNCHANGED <<upserts, index>>
                         ELSE /\ sync_pc' = "done"
                              /\ upserts' = Vectorize(collected.value)
                              /\ index' = IF upserts' # <<>>
                                          THEN UpsertRecords(index, upserts')
                                          ELSE index
    /\ UNCHANGED <<fetch, completed>>

NextSync ==
    \/ FetchReturns /\ UNCHANGED <<cleanVars, parseVars, ingestVars, searchVars>>
    \/ FetchRaises /\ UNCHANGED <<cleanVars, parseVars, ingestVars, searchVars>>
    \/ GatherRaises /\ UNCHANGED <<cleanVars, parseVars, ingestVars, searchVars>>
    \/ SyncResumes /\ UNCHANGED <<cleanVars, parseVars, ingestVars, searchVars>>

StartSync == IdleClean /\ IdleParse /\ IdleIngest /\ InitSync /\ IdleSearch

SpecSync == StartSync /\ [][NextSync]_vars

----------------------------------------------------------------------------
(* Properties of SportsDataSync.sync                                       *)

SyncEnded == sync_pc \in {"done", "raised"}

\* C3: the batch sync passes to the store's upsert never holds two entries
\* with the same id.
C3_SyncDeduplicates ==
    sync_pc = "done" => Cardinality(Ids(upserts)) = Len(upserts)

\* run_ingestion's half of C4: a run submits the records of every file that
\* exists, whichever other files are missing
IngestionSkipsMissingFiles ==
    (runs' = runs + 1 /\ ingest_pc' = "done") =>
        \A name \in DOMAIN data : \A i \in 1..Len(data[name]) :
            StableId(data[name][i]) \in Ids(unique_records')

\* sync's half of C4: with a fetch failed, the run still ends normally and
\* submits the records of every other fetch
SyncSkipsFailedFetch ==
    (SyncEnded /\ embed_error = 0 /\ \E t \in 1..Len(tasks) : fetch[t].status = "failed") =>
        /\ sync_pc = "done"
        /\ \A t \in 1..Len(tasks) :
              fetch[t].status # "failed" =>
                  /\ fetch[t].status = "done"
                  /\ Ids(ProcessResult(t).value) \subseteq Ids(upserts)

\* C4: a source that is missing or unreachable is skipped and the run goes
\* on: the records of every other source are processed and submitted in the
\* same run, in run_ingestion (a missing file) and in sync (a failed fetch).
C4_PartialSourceFailureIsolation ==
    [][IngestionSkipsMissingFiles]_vars /\ []SyncSkipsFailedFetch

IngestionHalfOfC4 == [][IngestionSkipsMissingFiles]_vars

\* C5: when the embedding provider fails for one record, sync skips that
\* record and still embeds and upserts every other collected record.
C5_EmbeddingFailureSkipsRecord ==
    (SyncEnded /\ embed_error # 0) =>
        /\ sync_pc = "done"
        /\ \A i \in 1..Len(sync_records) :
              i # embed_error =>
                  \E j \in 1..Len(upserts) :
                      /\ upserts[j].id = sync_records[i].id
                      /\ upserts[j].metadata.headline = sync_records[i].metadata.headline

\* the entries one source contributes to the batch: a function of what that
\* source returned alone
SourceBatch(t) == Vectorize(ProcessResult(t).value)

\* the fetches have completed in an order other than that of the task list
CompletedOutOfOrder ==
    \E j, k \in 1..Len(completed) : j < k /\ completed[j] > completed[k]

\* C11: the fetches complete in any order; nothing is collected, embedded or
\* upserted while a fetch has not completed; and the batch submitted to the
\* store is determined by what each source returned (the entries of the
\* first task, then of the second, ...), whatever the order of completion.
C11_JoinBarrier ==
    /\ (sync_records # <<>> \/ upserts # <<>> \/ DOMAIN index # {} \/ sync_pc = "done") =>
          /\ GatherDone
          /\ Len(completed) = Len(tasks)
    /\ sync_pc = "done" =>
          upserts = SourceBatch(1) \o SourceBatch(2) \o SourceBatch(3) \o SourceBatch(4)

\* the last task's fetch completed first, each source returned a record, and
\* the batch was upserted
C11_Witness ==
    /\ sync_pc = "done"
    /\ CompletedOutOfOrder
    /\ completed[1] = Len(tasks)
    /\ \A t \in 1..Len(tasks) : SourceBatch(t) # <<>>
    /\ Len(upserts) >= Len(tasks)
    /\ DOMAIN index # {}

====
